---- MODULE Spec2Model ----
(***************************************************************************)
(* Per-PID PES reassembly and codec analysis of the mpts package:          *)
(* H266Record (internal/h266.go) and MpeghAudioRecord (the MPEG-H 3D Audio *)
(* record), their Process / Flush handlers, the VVC NAL scanner, the MHAS  *)
(* packet parser and the escaped-value decoder.                            *)
(*                                                                         *)
(* Bytes are integers 0..255, byte slices are sequences (1-based here,     *)
(* 0-based in the Go source).  *PesPkt pointers are indices into heap      *)
(* (0 is nil), so that curpkt and the entries of Pkts alias one packet as  *)
(* they do in the source.                                                  *)
(***************************************************************************)
EXTENDS Integers, Sequences, FiniteSets, TLC

VARIABLES
    kind,               \* "h266": an H266Record; "mpegh": a MpeghAudioRecord
    heap,               \* the PesPkt objects allocated so far (&PesPkt{})
    curpkt,             \* s.curpkt: index into heap, 0 = nil
    Pkts,               \* s.Pkts: sequence of heap indices
    NalInfos,           \* H266Record.NalInfos
    MhasPackets,        \* MpeghAudioRecord.MhasPackets
    RapFrames,          \* MpeghAudioRecord.RapFrames
    WorkaroundPESFlag,  \* s.WorkaroundPESFlag
    WorkaroundPES,      \* s.WorkaroundPES
    PcrTime,            \* s.BaseRecord.PcrTime
    IFrameLog,          \* rows written by BaseRecord.LogIFrame
    RapLog,             \* rows written by MpeghAudioRecord.LogRap
    panicked,           \* a Go run-time panic (index out of range) ended the run
    calls,              \* history of the calls made on the record (inputs only)
    PidCsv,             \* lines of <pid>.csv written by Report (<<>>: no file)
    UnitCsv,            \* lines of <pid>-nal.csv / <pid>-mhas.csv (<<>>: no file)
    fn,                 \* pure-function harness: which function is applied
    arg,                \* pure-function harness: the input drawn in Init
    ret                 \* pure-function harness: "none" or the value returned

vars == <<kind, heap, curpkt, Pkts, NalInfos, MhasPackets, RapFrames,
          WorkaroundPESFlag, WorkaroundPES, PcrTime, IFrameLog, RapLog,
          panicked, calls, PidCsv, UnitCsv, fn, arg, ret>>

recvars == <<kind, heap, curpkt, Pkts, NalInfos, MhasPackets, RapFrames,
             WorkaroundPESFlag, WorkaroundPES, PcrTime, IFrameLog, RapLog,
             panicked, calls, PidCsv, UnitCsv>>

fnvars == <<fn, arg, ret>>

(***************************************************************************)
(* Bounds of the model.                                                    *)
(***************************************************************************)
\* Process and Flush calls made on one record
MaxCalls == 4
\* length of the byte sequences handed to ParseVvcNalUnits
MaxNalLen == 8
\* the values 0..MaxEscValue are encoded for parseEscapedValue
MaxEscValue == 520
\* valid MHAS packets that follow the corrupt one
MaxMhasPkts == 3

(***************************************************************************)
(* Generic helpers.                                                        *)
(***************************************************************************)
Drop(s, n) == SubSeq(s, n + 1, Len(s))

Pow2(n) == 2 ^ n

RECURSIVE Flatten(_)
Flatten(ss) == IF ss = <<>> THEN <<>> ELSE Head(ss) \o Flatten(Tail(ss))

\* var startcode = []byte{0, 0, 1}
startcode == <<0, 0, 1>>

(***************************************************************************)
(* internal/h266.go: NAL unit classification.                              *)
(***************************************************************************)
VvcNalUnitType ==
    << "trail_nvc", "stsa_nvc", "radl_nvc", "rasl_nvc", "rsv_vcl_4",
       "rsv_vcl_5", "rsv_vcl_6", "idr_w_radl", "idr_n_lp", "cra_nut",
       "gdr_nut", "rsv_irap_11", "opi_nut", "dci_nut", "vps_nut", "sps_nut",
       "pps_nut", "prefix_aps_nut", "suffix_aps_nut", "ph_nut", "aud_nut",
       "eob_nut", "eos_nut", "prefix_sei_nut", "suffix_sei_nut", "fd_nut",
       "rsv_nvcl_26", "rsv_nvcl_27", "unspec_28", "unspec_29", "unspec_30",
       "unspec_31" >>

\* nalType := (b >> 3) & 0x1F
GetVvcNalUnitType(b) ==
    LET nalType == (b \div 8) % 32
    IN  IF nalType < Len(VvcNalUnitType)
        THEN VvcNalUnitType[nalType + 1]
        ELSE "unknown"

\* The loop of ParseVvcNalUnits; pos is the 0-based Go index.
RECURSIVE VvcScan(_, _, _)
VvcScan(data, pos, nals) ==
    IF pos + 5 < Len(data)
    THEN IF SubSeq(data, pos + 1, pos + 3) = startcode
         THEN LET p == pos + 3
              IN  VvcScan(data, p + 1,
                          IF p + 1 < Len(data)
                          THEN Append(nals, GetVvcNalUnitType(data[p + 2]))
                          ELSE nals)
         ELSE VvcScan(data, pos + 1, nals)
    ELSE nals

ParseVvcNalUnits(data) == VvcScan(data, 0, <<>>)

\* nal == "idr_w_radl" || nal == "idr_n_lp" || nal == "cra_nut"
IsVvcRapNal(nal) == nal \in {"idr_w_radl", "idr_n_lp", "cra_nut"}

minVvcPesHeaderLen == 19

(***************************************************************************)
(* PesPkt and PesPkt.Read.  Read is not among the source files at hand; it *)
(* is modelled from its interface: given bytes that begin with 00 00 01    *)
(* and hold at least 19 bytes it returns the header length and sets Pts    *)
(* and Dts.  The layout is the ISO/IEC 13818-1 PES header: PTS_DTS_flags   *)
(* in byte 7, PES_header_data_length in byte 8, the time stamps in bytes   *)
(* 9..13 and 14..18.                                                       *)
(***************************************************************************)
NewPesPkt == [Pos |-> 0, Pcr |-> 0, Pts |-> 0, Dts |-> 0, Size |-> 0, Data |-> <<>>]

\* The time stamp in the five bytes from 1-based index i: bits 29..0 of the
\* 33-bit field (bits 32..30, in d[i], are left out: the model's integers
\* are 32 bits wide; they are zero in the first 2^30 ticks of a stream).
PesTimestamp(d, i) ==
      d[i + 1] * Pow2(22)
    + (d[i + 2] \div 2) * Pow2(15)
    + d[i + 3] * Pow2(7)
    + (d[i + 4] \div 2)

PesRead(d) ==
    LET flags == d[8] \div 64
    IN  [hlen |-> 9 + d[9],
         Pts  |-> IF flags \in {2, 3} THEN PesTimestamp(d, 10) ELSE 0,
         Dts  |-> IF flags = 3 THEN PesTimestamp(d, 15) ELSE 0]

(***************************************************************************)
(* The reassembly steps of Process.  The two records carry the same text   *)
(* (h266.go 119-157, MPEG-H record 118-156); the steps take the record's   *)
(* minimum header length.  st is the handler's local view:                 *)
(* [heap, cur, flag, buf, data, panic], data being pkt.Data.               *)
(***************************************************************************)
\* hlen := s.curpkt.Read(src); pkt.Data = src[hlen:]
\* (a slice expression with hlen > len(src) panics)
ReadHeader(st, src) ==
    LET r == PesRead(src)
        h == [st.heap EXCEPT ![st.cur].Pts = r.Pts, ![st.cur].Dts = r.Dts]
    IN  IF r.hlen > Len(src)
        THEN [st EXCEPT !.heap = h, !.panic = TRUE]
        ELSE [st EXCEPT !.heap = h, !.data = Drop(src, r.hlen)]

\* s.curpkt = &PesPkt{} ... the header branch of the PUSI block
StartPes(minLen, pkt, pcr, st) ==
    LET new == [NewPesPkt EXCEPT !.Pos = pkt.Pos, !.Pcr = pcr]
        s1  == [st EXCEPT !.heap = Append(st.heap, new),
                          !.cur  = Len(st.heap) + 1]
    IN  IF Len(pkt.Data) >= minLen
        THEN IF SubSeq(pkt.Data, 1, 3) = startcode
             THEN ReadHeader(s1, pkt.Data)
             ELSE s1                       \* "PES start code error"
        ELSE [s1 EXCEPT !.flag = TRUE, !.buf = <<>>]

\* the workaround block handing the whole buffer on, header included
\* (pkt.Data = s.WorkaroundPES in place of s.WorkaroundPES[hlen:])
WorkaroundStepKeepsHeader(minLen, st) ==
    IF st.flag /\ ~st.panic
    THEN LET buf == st.buf \o st.data
             s1  == [st EXCEPT !.buf = buf, !.data = <<>>]
         IN  IF Len(buf) >= minLen
             THEN IF SubSeq(buf, 1, 3) = startcode
                  THEN [ReadHeader(s1, buf) EXCEPT !.flag = FALSE, !.data = buf]
                  ELSE s1
             ELSE s1
    ELSE st

\* if s.WorkaroundPESFlag { ... }
WorkaroundStep(minLen, st) ==
    IF st.flag /\ ~st.panic
    THEN LET buf == st.buf \o st.data
             s1  == [st EXCEPT !.buf = buf, !.data = <<>>]
         IN  IF Len(buf) >= minLen
             THEN IF SubSeq(buf, 1, 3) = startcode
                  THEN LET s2 == ReadHeader(s1, buf)
                       IN  IF s2.panic THEN s2 ELSE [s2 EXCEPT !.flag = FALSE]
                  ELSE s1                  \* "PES start code error"
             ELSE s1
    ELSE st

\* the accumulation with "Size = len(pkt.Data)" in place of "Size +="
AccumulateSizeAssigned(st) ==
    IF st.cur # 0 /\ ~st.panic
    THEN [st EXCEPT !.heap = [st.heap EXCEPT
                                 ![st.cur].Size = Len(st.data),
                                 ![st.cur].Data = @ \o st.data]]
    ELSE st

\* if s.curpkt != nil { Size += len(pkt.Data); Data = append(Data, pkt.Data...) }
Accumulate(st) ==
    IF st.cur # 0 /\ ~st.panic
    THEN [st EXCEPT !.heap = [st.heap EXCEPT
                                 ![st.cur].Size = @ + Len(st.data),
                                 ![st.cur].Data = @ \o st.data]]
    ELSE st

\* the whole of Process after the finalization of the previous packet
Reassemble(minLen, pkt) ==
    LET st0 == [heap |-> heap, cur |-> curpkt, flag |-> WorkaroundPESFlag,
                buf |-> WorkaroundPES, data |-> pkt.Data, panic |-> FALSE]
        st1 == IF pkt.PUSI = 1 THEN StartPes(minLen, pkt, PcrTime, st0) ELSE st0
    IN  Accumulate(WorkaroundStep(minLen, st1))

(***************************************************************************)
(* Reader (Data, Base, Off): the bit reader used by the MHAS parser.  It   *)
(* is not among the source files at hand; it is modelled from its use: a   *)
(* byte cursor Base and a bit offset Off, ReadBit64(n) reading n bits most *)
(* significant first, SkipByte(n) advancing Base by n.  A read past the    *)
(* last byte is recorded in oob (in Go, an index out of range).            *)
(***************************************************************************)
NewReader == [Base |-> 0, Off |-> 0, oob |-> FALSE]

RECURSIVE ReadBit64(_, _, _, _)
ReadBit64(data, r, n, acc) ==
    IF n = 0
    THEN [val |-> acc, r |-> r]
    ELSE IF r.Base >= Len(data)
         THEN [val |-> acc, r |-> [r EXCEPT !.oob = TRUE]]
         ELSE LET bit == (data[r.Base + 1] \div Pow2(7 - r.Off)) % 2
                  r1  == IF r.Off = 7
                         THEN [r EXCEPT !.Base = @ + 1, !.Off = 0]
                         ELSE [r EXCEPT !.Off = @ + 1]
              IN  ReadBit64(data, r1, n - 1, 2 * acc + bit)

SkipByte(r, n) == [r EXCEPT !.Base = @ + n]

(***************************************************************************)
(* The MPEG-H record: packet type names, parseEscapedValue and             *)
(* parseMhasPackets.                                                       *)
(***************************************************************************)
MpeghAudioPacketType ==
    << "PACTYP_FILLDATA", "PACTYP_MPEGH3DACFG", "PACTYP_MPEGH3DAFRAME",
       "PACTYP_AUDIOSCENEINFO", "PACTYP_SYNC", "PACTYP_SYNCGAP",
       "PACTYP_MARKER", "PACTYP_CRC16", "PACTYP_CRC32", "PACTYP_DESCRIPTOR",
       "PACTYP_USERINTERACTION", "PACTYP_LOUDNESS_DRC", "PACTYP_BUFFERINFO",
       "PACTYP_GLOBAL_CRC16", "PACTYP_GLOBAL_CRC32", "PACTYP_AUDIOTRUNCATION",
       "PACTYP_GENDATA" >>

\* the lookup without the gap at 4 and 5: code c maps to table[c]
GetMpeghAudioPacketTypeNoGap(packetType) ==
    IF packetType \in 0..16
    THEN MpeghAudioPacketType[packetType + 1]
    ELSE "unknown_" \o ToString(packetType)

\* typeMap: 0..3 -> table[0..3], 6..18 -> table[4..16]
GetMpeghAudioPacketType(packetType) ==
    IF packetType \in 0..3
    THEN MpeghAudioPacketType[packetType + 1]
    ELSE IF packetType \in 6..18
         THEN MpeghAudioPacketType[packetType - 1]
         ELSE "unknown_" \o ToString(packetType)

\* the decoder with "val = val2" in place of "val = val + val2"
parseEscapedValueDropsBase(data, r, nBits, mBits, kBits) ==
    LET a == ReadBit64(data, r, nBits, 0)
        maxVal == Pow2(nBits) - 1
    IN  IF a.val = maxVal
        THEN LET b == ReadBit64(data, a.r, mBits, 0)
                 maxVal2 == Pow2(mBits) - 1
             IN  IF b.val = maxVal2
                 THEN LET c == ReadBit64(data, b.r, kBits, 0)
                      IN  [val |-> b.val + c.val, r |-> c.r]
                 ELSE [val |-> b.val, r |-> b.r]
        ELSE a

\* returns the value and the reader after the read
parseEscapedValue(data, r, nBits, mBits, kBits) ==
    LET a == ReadBit64(data, r, nBits, 0)
        maxVal == Pow2(nBits) - 1
    IN  IF a.val = maxVal
        THEN LET b == ReadBit64(data, a.r, mBits, 0)
                 maxVal2 == Pow2(mBits) - 1
             IN  IF b.val = maxVal2
                 THEN LET c == ReadBit64(data, b.r, kBits, 0)
                      IN  [val |-> a.val + b.val + c.val, r |-> c.r]
                 ELSE [val |-> a.val + b.val, r |-> b.r]
        ELSE a

\* the loop without the rewind "r.Base = startPos + 1" after a rejected
\* header: the cursor stays where the header ended
RECURSIVE MhasLoopNoRewind(_, _, _)
MhasLoopNoRewind(data, r, acc) ==
    IF r.Base < Len(data) /\ ~(r.Base + 2 > Len(data))
    THEN LET startPos == r.Base
             t == parseEscapedValue(data, r, 3, 8, 8)
             l == parseEscapedValue(data, t.r, 2, 8, 32)
             n == parseEscapedValue(data, l.r, 11, 24, 24)
             a1 == [acc EXCEPT !.starts = Append(@, startPos)]
         IN  IF n.r.oob
             THEN [a1 EXCEPT !.oob = TRUE]
             ELSE IF n.val > Len(data) - n.r.Base
                  THEN MhasLoopNoRewind(data, n.r,
                                [a1 EXCEPT !.resyncs = @ + 1])
                  ELSE MhasLoopNoRewind(data, SkipByte(n.r, n.val),
                                [a1 EXCEPT
                                   !.types = Append(@, GetMpeghAudioPacketType(t.val)),
                                   !.isRap = @ \/ t.val = 1 \/ t.val = 6])
    ELSE acc

\* the loop with the RAP test "packetType == 1" alone
RECURSIVE MhasLoopSyncIgnored(_, _, _)
MhasLoopSyncIgnored(data, r, acc) ==
    IF r.Base < Len(data) /\ ~(r.Base + 2 > Len(data))
    THEN LET startPos == r.Base
             startOff == r.Off
             t == parseEscapedValue(data, r, 3, 8, 8)
             l == parseEscapedValue(data, t.r, 2, 8, 32)
             n == parseEscapedValue(data, l.r, 11, 24, 24)
             a1 == [acc EXCEPT !.starts = Append(@, startPos)]
         IN  IF n.r.oob
             THEN [a1 EXCEPT !.oob = TRUE]
             ELSE IF n.val > Len(data) - n.r.Base
                  THEN MhasLoopSyncIgnored(data,
                                [n.r EXCEPT !.Base = startPos + 1,
                                            !.Off = startOff],
                                [a1 EXCEPT !.resyncs = @ + 1])
                  ELSE MhasLoopSyncIgnored(data, SkipByte(n.r, n.val),
                                [a1 EXCEPT
                                   !.types = Append(@, GetMpeghAudioPacketType(t.val)),
                                   !.isRap = @ \/ t.val = 1])
    ELSE acc

\* the loop leaving ("break") at a header rejected by the length check
RECURSIVE MhasLoopAborts(_, _, _)
MhasLoopAborts(data, r, acc) ==
    IF r.Base < Len(data) /\ ~(r.Base + 2 > Len(data))
    THEN LET startPos == r.Base
             t == parseEscapedValue(data, r, 3, 8, 8)
             l == parseEscapedValue(data, t.r, 2, 8, 32)
             n == parseEscapedValue(data, l.r, 11, 24, 24)
             a1 == [acc EXCEPT !.starts = Append(@, startPos)]
         IN  IF n.r.oob
             THEN [a1 EXCEPT !.oob = TRUE]
             ELSE IF n.val > Len(data) - n.r.Base
                  THEN [a1 EXCEPT !.resyncs = @ + 1]
                  ELSE MhasLoopAborts(data, SkipByte(n.r, n.val),
                                [a1 EXCEPT
                                   !.types = Append(@, GetMpeghAudioPacketType(t.val)),
                                   !.isRap = @ \/ t.val = 1 \/ t.val = 6])
    ELSE acc

\* The loop of parseMhasPackets.  acc is [types, isRap, oob, starts, resyncs]:
\* starts lists startPos of every loop body run, resyncs counts the headers
\* rejected by the length check.
RECURSIVE MhasLoop(_, _, _)
MhasLoop(data, r, acc) ==
    IF r.Base < Len(data) /\ ~(r.Base + 2 > Len(data))
    THEN LET startPos == r.Base
             startOff == r.Off
             t == parseEscapedValue(data, r, 3, 8, 8)
             l == parseEscapedValue(data, t.r, 2, 8, 32)
             n == parseEscapedValue(data, l.r, 11, 24, 24)
             a1 == [acc EXCEPT !.starts = Append(@, startPos)]
         IN  IF n.r.oob
             THEN [a1 EXCEPT !.oob = TRUE]
             ELSE IF n.val > Len(data) - n.r.Base
                  THEN MhasLoop(data, [n.r EXCEPT !.Base = startPos + 1,
                                                  !.Off = startOff],
                                [a1 EXCEPT !.resyncs = @ + 1])
                  ELSE MhasLoop(data, SkipByte(n.r, n.val),
                                [a1 EXCEPT
                                   !.types = Append(@, GetMpeghAudioPacketType(t.val)),
                                   !.isRap = @ \/ t.val = 1 \/ t.val = 6])
    ELSE acc

MhasScan(data) ==
    MhasLoop(data, NewReader,
             [types |-> <<>>, isRap |-> FALSE, oob |-> FALSE,
              starts |-> <<>>, resyncs |-> 0])

\* the append without the "len(packetTypes) > 0" test
MhasAppendAlways(infos, scan, pos, pts) ==
    IF ~scan.oob
    THEN Append(infos, [Pos |-> pos, Pts |-> pts, PacketTypes |-> scan.types])
    ELSE infos

\* if len(packetTypes) > 0 { s.MhasPackets = append(...) }
MhasAppend(infos, scan, pos, pts) ==
    IF Len(scan.types) > 0 /\ ~scan.oob
    THEN Append(infos, [Pos |-> pos, Pts |-> pts, PacketTypes |-> scan.types])
    ELSE infos

minMpeghAudioPesHeaderLen == 19

(***************************************************************************)
(* Finalization of the current packet and the two records' handlers.       *)
(* s.LogAdaptFieldPrivData(pkt), the first statement of Process, writes to *)
(* a log of its own and touches none of the state below.                   *)
(***************************************************************************)
\* info := IFrameInfo{}; info.Pos = ...; info.Pts = ...; info.Key = true
IFrameInfo(p) == [Pos |-> p.Pos, Pts |-> p.Pts, Key |-> TRUE]

\* BaseRecord.LogIFrame is not among the source files at hand; modelled from
\* its use: it writes one row per call.
LogIFrame(log, info) == Append(log, info)

\* for _, nal := range nals { if RAP nal { ... s.LogIFrame(info) } }
RECURSIVE LogVvcRaps(_, _, _)
LogVvcRaps(log, p, nals) ==
    IF nals = <<>>
    THEN log
    ELSE LogVvcRaps(IF IsVvcRapNal(Head(nals))
                    THEN LogIFrame(log, IFrameInfo(p))
                    ELSE log,
                    p, Tail(nals))

\* MpeghAudioRecord.LogRap: one row per call (the file is created on the
\* first call)
LogRap(log, info) == Append(log, info)

NalInfo(p, nals) == [Pos |-> p.Pos, Pts |-> p.Pts, Nals |-> nals]

ProcessCall(pkt) == [op |-> "Process", Pos |-> pkt.Pos, PUSI |-> pkt.PUSI,
                     Data |-> pkt.Data]

FlushCall == [op |-> "Flush", Pos |-> 0, PUSI |-> 0, Data |-> <<>>]

H266Process(pkt) ==
    /\ fn = "record"
    /\ kind = "h266"
    /\ ~panicked
    /\ PidCsv = <<>>                 \* Report ends the run
    /\ Len(calls) < MaxCalls
    /\ LET fin  == pkt.PUSI = 1 /\ curpkt # 0
           nals == IF fin THEN ParseVvcNalUnits(heap[curpkt].Data) ELSE <<>>
           st   == Reassemble(minVvcPesHeaderLen, pkt)
       IN  /\ IFrameLog' = IF fin THEN LogVvcRaps(IFrameLog, heap[curpkt], nals)
                                  ELSE IFrameLog
           /\ NalInfos' = IF fin THEN Append(NalInfos, NalInfo(heap[curpkt], nals))
                                 ELSE NalInfos
           /\ Pkts' = IF fin THEN Append(Pkts, curpkt) ELSE Pkts
           /\ heap' = st.heap
           /\ curpkt' = st.cur
           /\ WorkaroundPESFlag' = st.flag
           /\ WorkaroundPES' = st.buf
           /\ panicked' = st.panic
    /\ calls' = Append(calls, ProcessCall(pkt))
    /\ UNCHANGED <<kind, MhasPackets, RapFrames, RapLog, PcrTime, PidCsv, UnitCsv, fnvars>>

\* Flush that analyses the outstanding packet but leaves it out of Pkts
H266FlushDropsPacket ==
    /\ fn = "record"
    /\ kind = "h266"
    /\ ~panicked
    /\ PidCsv = <<>>                 \* Report ends the run
    /\ Len(calls) < MaxCalls
    /\ IF curpkt # 0
       THEN NalInfos' = Append(NalInfos,
                               NalInfo(heap[curpkt],
                                       ParseVvcNalUnits(heap[curpkt].Data)))
       ELSE UNCHANGED NalInfos
    /\ calls' = Append(calls, FlushCall)
    /\ UNCHANGED <<kind, heap, curpkt, Pkts, MhasPackets, RapFrames,
                   WorkaroundPESFlag, WorkaroundPES, PcrTime, IFrameLog,
                   RapLog, panicked, PidCsv, UnitCsv, fnvars>>

H266Flush ==
    /\ fn = "record"
    /\ kind = "h266"
    /\ ~panicked
    /\ PidCsv = <<>>                 \* Report ends the run
    /\ Len(calls) < MaxCalls
    /\ IF curpkt # 0
       THEN /\ NalInfos' = Append(NalInfos,
                                  NalInfo(heap[curpkt],
                                          ParseVvcNalUnits(heap[curpkt].Data)))
            /\ Pkts' = Append(Pkts, curpkt)
       ELSE UNCHANGED <<NalInfos, Pkts>>
    /\ calls' = Append(calls, FlushCall)
    /\ UNCHANGED <<kind, heap, curpkt, MhasPackets, RapFrames, WorkaroundPESFlag,
                   WorkaroundPES, PcrTime, IFrameLog, RapLog, panicked, PidCsv, UnitCsv, fnvars>>

MpeghProcess(pkt) ==
    /\ fn = "record"
    /\ kind = "mpegh"
    /\ ~panicked
    /\ PidCsv = <<>>                 \* Report ends the run
    /\ Len(calls) < MaxCalls
    /\ LET fin  == pkt.PUSI = 1 /\ curpkt # 0
           p    == heap[curpkt]
           scan == MhasScan(p.Data)
           st   == Reassemble(minMpeghAudioPesHeaderLen, pkt)
       IN  IF fin /\ scan.oob
           THEN /\ panicked' = TRUE
                /\ UNCHANGED <<heap, curpkt, Pkts, MhasPackets, RapFrames,
                               RapLog, WorkaroundPESFlag, WorkaroundPES>>
           ELSE /\ MhasPackets' = IF fin THEN MhasAppend(MhasPackets, scan, p.Pos, p.Pts)
                                         ELSE MhasPackets
                /\ RapLog' = IF fin /\ scan.isRap THEN LogRap(RapLog, IFrameInfo(p))
                                                  ELSE RapLog
                /\ RapFrames' = IF fin /\ scan.isRap THEN Append(RapFrames, p.Pos)
                                                     ELSE RapFrames
                /\ Pkts' = IF fin THEN Append(Pkts, curpkt) ELSE Pkts
                /\ heap' = st.heap
                /\ curpkt' = st.cur
                /\ WorkaroundPESFlag' = st.flag
                /\ WorkaroundPES' = st.buf
                /\ panicked' = st.panic
    /\ calls' = Append(calls, ProcessCall(pkt))
    /\ UNCHANGED <<kind, NalInfos, IFrameLog, PcrTime, PidCsv, UnitCsv, fnvars>>

MpeghFlush ==
    /\ fn = "record"
    /\ kind = "mpegh"
    /\ ~panicked
    /\ PidCsv = <<>>                 \* Report ends the run
    /\ Len(calls) < MaxCalls
    /\ IF curpkt # 0
       THEN LET p    == heap[curpkt]
                scan == MhasScan(p.Data)
            IN  IF scan.oob
                THEN /\ panicked' = TRUE
                     /\ UNCHANGED <<MhasPackets, Pkts>>
                ELSE /\ MhasPackets' = MhasAppend(MhasPackets, scan, p.Pos, p.Pts)
                     /\ Pkts' = Append(Pkts, curpkt)
                     /\ UNCHANGED panicked
       ELSE UNCHANGED <<MhasPackets, Pkts, panicked>>
    /\ calls' = Append(calls, FlushCall)
    /\ UNCHANGED <<kind, heap, curpkt, NalInfos, RapFrames, WorkaroundPESFlag,
                   WorkaroundPES, PcrTime, IFrameLog, RapLog, PidCsv, UnitCsv, fnvars>>

(***************************************************************************)
(* Report.  The files are modelled by their lines.  The driver calls       *)
(* Report once per record, after Flush, as the last step of a run.         *)
(***************************************************************************)
\* strconv.FormatInt(n, 10)
FormatInt(n) == ToString(n)

\* strings.Join(cols, sep)
RECURSIVE Join(_, _)
Join(cols, sep) ==
    IF cols = <<>> THEN ""
    ELSE IF Len(cols) = 1 THEN cols[1]
    ELSE cols[1] \o sep \o Join(Tail(cols), sep)

\* the row with "dts - pcr" computed from p.Dts without the Pts fallback
PesRowRawDts(p) ==
    LET pcr == p.Pcr \div 300
        dts == IF p.Dts = 0 THEN p.Pts ELSE p.Dts
    IN  Join(<<FormatInt(p.Pos), FormatInt(p.Size), FormatInt(pcr),
               FormatInt(p.Pts), FormatInt(dts), FormatInt(p.Dts - pcr)>>, ", ")

\* the body of "for _, p := range s.Pkts" (Pcr is never negative, so Go's
\* truncating division is \div)
PesRow(p) ==
    LET pcr == p.Pcr \div 300
        dts == IF p.Dts = 0 THEN p.Pts ELSE p.Dts
    IN  Join(<<FormatInt(p.Pos), FormatInt(p.Size), FormatInt(pcr),
               FormatInt(p.Pts), FormatInt(dts), FormatInt(dts - pcr)>>, ", ")

\* <pid>.csv: the header line and one row per entry of Pkts
PidCsvLines ==
    <<"Pos, Size, PCR, PTS, DTS, (DTS-PCR)">>
        \o [i \in 1..Len(Pkts) |-> PesRow(heap[Pkts[i]])]

\* a row of <pid>-nal.csv or <pid>-mhas.csv
UnitRow(pos, pts, names) ==
    Join(<<FormatInt(pos), FormatInt(pts), Join(names, ", ")>>, ", ")

H266Report ==
    /\ fn = "record"
    /\ kind = "h266"
    /\ ~panicked
    /\ PidCsv = <<>>
    /\ calls # <<>> /\ calls[Len(calls)].op = "Flush"
    /\ PidCsv' = PidCsvLines
    /\ UnitCsv' = <<"Pos, PTS, NAL units">>
                    \o [i \in 1..Len(NalInfos) |->
                          UnitRow(NalInfos[i].Pos, NalInfos[i].Pts, NalInfos[i].Nals)]
    /\ UNCHANGED <<kind, heap, curpkt, Pkts, NalInfos, MhasPackets, RapFrames,
                   WorkaroundPESFlag, WorkaroundPES, PcrTime, IFrameLog, RapLog,
                   panicked, calls, fnvars>>

MpeghReport ==
    /\ fn = "record"
    /\ kind = "mpegh"
    /\ ~panicked
    /\ PidCsv = <<>>
    /\ calls # <<>> /\ calls[Len(calls)].op = "Flush"
    /\ PidCsv' = PidCsvLines
    /\ UnitCsv' = IF Len(MhasPackets) > 0
                  THEN <<"Pos, PTS, MHAS Packet Types">>
                         \o [i \in 1..Len(MhasPackets) |->
                               UnitRow(MhasPackets[i].Pos, MhasPackets[i].Pts,
                                       MhasPackets[i].PacketTypes)]
                  ELSE <<>>
    /\ UNCHANGED <<kind, heap, curpkt, Pkts, NalInfos, MhasPackets, RapFrames,
                   WorkaroundPESFlag, WorkaroundPES, PcrTime, IFrameLog, RapLog,
                   panicked, calls, fnvars>>

(***************************************************************************)
(* The demultiplexer's side: the running clock sample and the transport    *)
(* packets it hands to Process.                                            *)
(***************************************************************************)
\* 27 MHz clock samples the demultiplexer stores into BaseRecord.PcrTime
PcrSamples == {0, 27299}

SetPcrTime(v) ==
    /\ fn = "record"
    /\ ~panicked
    /\ PidCsv = <<>>                 \* Report ends the run
    /\ Len(calls) < MaxCalls
    /\ v > PcrTime
    /\ PcrTime' = v
    /\ UNCHANGED <<kind, heap, curpkt, Pkts, NalInfos, MhasPackets, RapFrames,
                   WorkaroundPESFlag, WorkaroundPES, IFrameLog, RapLog,
                   panicked, calls, PidCsv, UnitCsv, fnvars>>

\* A 19-byte PES header: stream id E0, PTS_DTS_flags 11, header data length
\* 10, PTS 1000, DTS 910.
PesHeader19 == <<0, 0, 1, 224, 0, 0, 128, 192, 10,
                 49, 0, 1, 7, 209, 17, 0, 1, 7, 29>>

\* A 14-byte PES header: PTS_DTS_flags 10, header data length 5, PTS 1000.
PesHeader14 == <<0, 0, 1, 224, 0, 0, 128, 128, 5, 33, 0, 1, 7, 209>>

\* NAL units: start code, two header bytes (type in the second), one more.
IdrNal   == <<0, 0, 1, 0, 64, 0>>
CraNal   == <<0, 0, 1, 0, 72, 0>>
TrailNal == <<0, 0, 1, 0, 0, 0>>

\* MHAS packets with un-escaped 16-bit headers (type:3, label:2, length:11).
MhasCfg   == <<32, 0>>
MhasSync  == <<192, 0>>
MhasFill  == <<0, 0>>
MhasFrame == <<64, 1, 170>>
\* a header declaring 288 payload bytes, followed by a fill and a frame
MhasTorn  == <<65, 32, 0, 0, 64, 0>>
\* 19 bytes that are one MHAS frame and do not begin 00 00 01
MhasFrame19 == <<64, 17, 0, 0, 0, 0, 0, 0, 0, 0, 0, 0, 0, 0, 0, 0, 0, 0, 0>>
\* 19 bytes that do not begin 00 00 01
Junk19 == <<0, 0, 2, 224, 0, 0, 128, 192, 10, 49, 0, 1, 7, 209, 17, 0, 1, 7, 29>>

TsPkt(pusi, data) == [Pos |-> 0, PUSI |-> pusi, Data |-> data]

\* the transport packets a stream of the record's kind is made of
TsMenu(k) ==
    IF k = "h266"
    THEN { TsPkt(1, PesHeader19 \o IdrNal),
           TsPkt(1, SubSeq(PesHeader19, 1, 10)),
           TsPkt(0, SubSeq(PesHeader19, 11, 19) \o <<0, 0, 1>>),
           TsPkt(0, <<0, 64, 0>>),
           TsPkt(0, CraNal),
           TsPkt(1, Junk19 \o IdrNal),
           TsPkt(1, <<7, 7, 7, 7>>),
           TsPkt(1, PesHeader14 \o TrailNal) }
    ELSE { TsPkt(1, PesHeader19 \o MhasCfg),
           TsPkt(1, SubSeq(PesHeader19, 1, 10)),
           TsPkt(0, SubSeq(PesHeader19, 11, 19) \o MhasFrame),
           TsPkt(0, MhasSync),
           TsPkt(0, MhasTorn),
           TsPkt(1, MhasFrame19 \o MhasCfg),
           TsPkt(1, <<7, 7, 7, 7>>),
           TsPkt(1, PesHeader14 \o MhasFrame \o MhasFill \o <<0>>) }

\* pkt.Pos: the packet's place in the stream
NextPos == Cardinality({i \in 1..Len(calls) : calls[i].op = "Process"}) + 1

(***************************************************************************)
(* The record specification: any calls of Process and Flush on one record. *)
(***************************************************************************)
InitRecord ==
    /\ heap = <<>>
    /\ curpkt = 0
    /\ Pkts = <<>>
    /\ NalInfos = <<>>
    /\ MhasPackets = <<>>
    /\ RapFrames = <<>>
    /\ WorkaroundPESFlag = FALSE
    /\ WorkaroundPES = <<>>
    /\ PcrTime = 0
    /\ IFrameLog = <<>>
    /\ RapLog = <<>>
    /\ panicked = FALSE
    /\ calls = <<>>
    /\ PidCsv = <<>>
    /\ UnitCsv = <<>>

Init ==
    /\ kind \in {"h266", "mpegh"}
    /\ InitRecord
    /\ fn = "record"
    /\ arg = <<>>
    /\ ret = <<>>

Next ==
    \/ \E t \in TsMenu(kind) : H266Process([t EXCEPT !.Pos = NextPos])
    \/ \E t \in TsMenu(kind) : MpeghProcess([t EXCEPT !.Pos = NextPos])
    \/ H266Flush
    \/ MpeghFlush
    \/ \E v \in PcrSamples : SetPcrTime(v)
    \/ H266Report
    \/ MpeghReport

Spec == Init /\ [][Next]_vars

(***************************************************************************)
(* ParseVvcNalUnits applied to every byte sequence over NalBytes of length *)
(* up to MaxNalLen.                                                        *)
(***************************************************************************)
\* 0 and 1 make start codes; as header bytes 0 and 1 are trail_nvc, 72 (0x48)
\* is cra_nut
NalBytes == {0, 1, 72}

NalInputs == UNION {[1..n -> NalBytes] : n \in 0..MaxNalLen}

InitNal ==
    /\ kind = "h266"
    /\ InitRecord
    /\ fn = "ParseVvcNalUnits"
    /\ arg \in NalInputs
    /\ ret = <<>>

CallParseVvcNalUnits ==
    /\ fn = "ParseVvcNalUnits"
    /\ ret = <<>>
    /\ ret' = <<ParseVvcNalUnits(arg)>>
    /\ UNCHANGED <<recvars, fn, arg>>

NextNal == CallParseVvcNalUnits

SpecNal == InitNal /\ [][NextNal]_vars

(***************************************************************************)
(* parseEscapedValue applied to the encodings of the values up to          *)
(* MaxEscValue and of the values around each saturation point, for the     *)
(* three width triples parseMhasPackets uses.  The encoder is the MHAS     *)
(* escapedValue syntax (ISO/IEC 23008-3) and belongs to the test input.    *)
(***************************************************************************)
EscWidths == {<<3, 8, 8>>, <<2, 8, 32>>, <<11, 24, 24>>}

\* v in n bits, most significant first
RECURSIVE ToBits(_, _)
ToBits(v, n) == IF n = 0 THEN <<>> ELSE Append(ToBits(v \div 2, n - 1), v % 2)

RECURSIVE BitsValue(_)
BitsValue(bits) ==
    IF bits = <<>> THEN 0
    ELSE 2 * BitsValue(SubSeq(bits, 1, Len(bits) - 1)) + bits[Len(bits)]

Ones(n) == [i \in 1..n |-> 1]

EscSat1(w) == Pow2(w[1]) - 1
EscSat2(w) == Pow2(w[2]) - 1

EscEncode(x, w) ==
    IF x < EscSat1(w)
    THEN ToBits(x, w[1])
    ELSE IF x - EscSat1(w) < EscSat2(w)
         THEN Ones(w[1]) \o ToBits(x - EscSat1(w), w[2])
         ELSE Ones(w[1]) \o Ones(w[2]) \o ToBits(x - EscSat1(w) - EscSat2(w), w[3])

\* the largest value the third field can carry (kept below 2^30)
EscMax(w) ==
    EscSat1(w) + EscSat2(w) + (IF w[3] > 24 THEN Pow2(24) ELSE Pow2(w[3]) - 1)

EscValues(w) ==
    { x \in (0..MaxEscValue)
              \cup { EscSat1(w) + d : d \in {-1, 0, 1} }
              \cup { EscSat1(w) + EscSat2(w) + d : d \in {-1, 0, 1, 2} }
              \cup { EscMax(w) } :
        x <= EscMax(w) }

\* bits packed into bytes, the last byte padded with zero bits
RECURSIVE PackBits(_)
PackBits(bits) ==
    IF bits = <<>> THEN <<>>
    ELSE IF Len(bits) < 8
         THEN <<BitsValue(bits \o [i \in 1..(8 - Len(bits)) |-> 0])>>
         ELSE <<BitsValue(SubSeq(bits, 1, 8))>> \o PackBits(Drop(bits, 8))

\* what follows the encoded value in the stream
EscTrailers == {<<>>, <<1, 1, 1>>}

EscInputs ==
    { [x |-> x, w |-> w, bits |-> EscEncode(x, w) \o t] :
        x \in UNION {EscValues(w0) : w0 \in EscWidths}, w \in EscWidths,
        t \in EscTrailers }

InitEsc ==
    /\ kind = "mpegh"
    /\ InitRecord
    /\ fn = "parseEscapedValue"
    /\ arg \in {a \in EscInputs : a.x \in EscValues(a.w)}
    /\ ret = <<>>

CallParseEscapedValue ==
    /\ fn = "parseEscapedValue"
    /\ ret = <<>>
    /\ LET e == parseEscapedValue(PackBits(arg.bits), NewReader,
                                  arg.w[1], arg.w[2], arg.w[3])
       IN  ret' = <<[val |-> e.val, used |-> 8 * e.r.Base + e.r.Off,
                     oob |-> e.r.oob]>>
    /\ UNCHANGED <<recvars, fn, arg>>

NextEsc == CallParseEscapedValue

SpecEsc == InitEsc /\ [][NextEsc]_vars

(***************************************************************************)
(* parseMhasPackets applied, on a fresh MPEG-H record, to payloads made of *)
(* a header whose declared length exceeds what is left, followed by valid  *)
(* packets.                                                                *)
(***************************************************************************)
\* type 2, length 288; type 2, length 100; type 1, length 200;
\* type 0, length 1024 and one stray byte
MhasJunk == {<<65, 32>>, <<64, 100>>, <<32, 200>>, <<4, 0, 64>>}

\* config, sync, fill, frame (one payload byte), type 4 (no table entry)
MhasValid == {MhasCfg, MhasSync, MhasFill, MhasFrame, <<128, 0>>}

MhasInputs ==
    { [junk |-> j, valid |-> v] :
        j \in MhasJunk,
        v \in UNION {[1..n -> MhasValid] : n \in 1..MaxMhasPkts} }

MhasPayload(a) == a.junk \o Flatten(a.valid)

InitMhas ==
    /\ kind = "mpegh"
    /\ InitRecord
    /\ fn = "parseMhasPackets"
    /\ arg \in MhasInputs
    /\ ret = <<>>

\* s.parseMhasPackets(data, pos, pts) with pos = 1, pts = 0
CallParseMhasPackets ==
    /\ fn = "parseMhasPackets"
    /\ ret = <<>>
    /\ LET scan == MhasScan(MhasPayload(arg))
       IN  /\ ret' = <<scan>>
           /\ MhasPackets' = MhasAppend(MhasPackets, scan, 1, 0)
           /\ panicked' = scan.oob
    /\ UNCHANGED <<kind, heap, curpkt, Pkts, NalInfos, RapFrames,
                   WorkaroundPESFlag, WorkaroundPES, PcrTime, IFrameLog,
                   RapLog, calls, PidCsv, UnitCsv, fn, arg>>

NextMhas == CallParseMhasPackets

SpecMhas == InitMhas /\ [][NextMhas]_vars

(***************************************************************************)
(* What the call history says about the stream.                            *)
(***************************************************************************)
IsPusiCall(c) == c.op = "Process" /\ c.PUSI = 1

\* Pos of the PUSI packets processed, in arrival order
PusiPos ==
    LET ps == SelectSeq(calls, IsPusiCall)
    IN  [i \in 1..Len(ps) |-> ps[i].Pos]

\* Pos of the entries of Pkts
PktPos == [i \in 1..Len(Pkts) |-> heap[Pkts[i]].Pos]

NoFlushYet == \A i \in 1..Len(calls) : calls[i].op = "Process"

\* Process calls followed by a single Flush
FlushedOnce ==
    /\ Len(calls) > 0
    /\ calls[Len(calls)].op = "Flush"
    /\ \A i \in 1..(Len(calls) - 1) : calls[i].op = "Process"

Iota(n) == [i \in 1..n |-> i]

\* the payload holds a NAL unit that triggers a random-access event
HasVvcRap(data) ==
    \E k \in 1..Len(ParseVvcNalUnits(data)) : IsVvcRapNal(ParseVvcNalUnits(data)[k])

\* number of rows of a log written for the packet at pos
RowsAt(log, pos) == Cardinality({k \in 1..Len(log) : log[k].Pos = pos})

InSeq(x, sq) == \E k \in 1..Len(sq) : sq[k] = x

\* 1-based indices at which a 00 00 01 marker begins
Markers(data) == {i \in 1..(Len(data) - 2) : SubSeq(data, i, i + 2) = startcode}

RECURSIVE Ascending(_)
Ascending(S) ==
    IF S = {} THEN <<>>
    ELSE LET m == CHOOSE x \in S : \A y \in S : x <= y
         IN  <<m>> \o Ascending(S \ {m})

\* the table name of the second byte after the marker at i
NalNameAfter(data, i) == VvcNalUnitType[((data[i + 4] \div 8) % 32) + 1]

(***************************************************************************)
(* C1.  For Process calls followed by a single Flush every PesPkt is       *)
(* finalized exactly once: after the Flush, Pkts holds each packet object  *)
(* once, one per PUSI packet processed, in arrival order, with the Pos of  *)
(* its PUSI packet; before the Flush, Pkts holds exactly the packets that  *)
(* a later PUSI replaced and the last PUSI's packet is the current one.    *)
(***************************************************************************)
C1_FinalizedExactlyOnce ==
    ~panicked =>
    /\ Len(heap) = Len(PusiPos)
    /\ NoFlushYet =>
         /\ Pkts = Iota(Len(heap) - (IF heap = <<>> THEN 0 ELSE 1))
         /\ PktPos = SubSeq(PusiPos, 1, Len(PusiPos) - 1)
         /\ curpkt = Len(heap)
         /\ curpkt # 0 => heap[curpkt].Pos = PusiPos[Len(PusiPos)]
    /\ FlushedOnce =>
         /\ Pkts = Iota(Len(heap))
         /\ PktPos = PusiPos

\* three PUSI packets, then the Flush
C1_Witness ==
    /\ FlushedOnce
    /\ Len(PusiPos) = 3
    /\ Len(Pkts) = 3

(***************************************************************************)
(* C2.  H.266: a finalized PES payload with one or more RAP NAL units      *)
(* (idr_w_radl, idr_n_lp, cra_nut) yields exactly one LogIFrame call, a    *)
(* payload with none yields no call.  Stated for the packets finalized by  *)
(* a following PUSI packet (no Flush yet), whose Data no longer changes.   *)
(***************************************************************************)
C2_OneEventPerPayload ==
    (kind = "h266" /\ NoFlushYet) =>
        \A i \in 1..Len(Pkts) :
            RowsAt(IFrameLog, heap[Pkts[i]].Pos)
                = IF HasVvcRap(heap[Pkts[i]].Data) THEN 1 ELSE 0

(***************************************************************************)
(* C3.  Flush finalizes the outstanding packet as a following PUSI packet  *)
(* would: after Process calls and one Flush the outstanding packet is the  *)
(* last entry of Pkts, its structural-unit record is the last one, and if  *)
(* its payload holds a random-access indicator the event is logged at its  *)
(* Pos (H.266: LogIFrame; MPEG-H: LogRap and RapFrames).                   *)
(***************************************************************************)
C3_FlushFinalizesLikePusi ==
    (FlushedOnce /\ curpkt # 0 /\ ~panicked) =>
        LET p == heap[curpkt]
        IN  /\ Pkts # <<>> /\ Pkts[Len(Pkts)] = curpkt
            /\ kind = "h266" =>
                 /\ NalInfos # <<>>
                 /\ NalInfos[Len(NalInfos)] = NalInfo(p, ParseVvcNalUnits(p.Data))
                 /\ HasVvcRap(p.Data) => RowsAt(IFrameLog, p.Pos) >= 1
            /\ kind = "mpegh" =>
                 /\ MhasScan(p.Data).types # <<>> =>
                      /\ MhasPackets # <<>>
                      /\ MhasPackets[Len(MhasPackets)].Pos = p.Pos
                      /\ MhasPackets[Len(MhasPackets)].PacketTypes = MhasScan(p.Data).types
                 /\ MhasScan(p.Data).isRap =>
                      /\ RowsAt(RapLog, p.Pos) >= 1
                      /\ InSeq(p.Pos, RapFrames)

(***************************************************************************)
(* C4.  For a byte sequence with exactly N occurrences of 00 00 01, each   *)
(* followed by at least 2 bytes, ParseVvcNalUnits returns N names in       *)
(* encounter order, the i-th being the table name of                       *)
(* ((second byte after the i-th marker) >> 3) & 0x1F.                      *)
(***************************************************************************)
C4_OneNamePerMarker ==
    (fn = "ParseVvcNalUnits" /\ ret # <<>>
       /\ \A i \in Markers(arg) : i + 4 <= Len(arg)) =>
        LET ms == Ascending(Markers(arg))
        IN  ret[1] = [j \in 1..Len(ms) |-> NalNameAfter(arg, ms[j])]

(***************************************************************************)
(* C5.  Once the workaround buffer has accumulated at least 19 bytes,      *)
(* workaround mode is resolved: after the call that brings WorkaroundPES   *)
(* to 19 bytes or more, WorkaroundPESFlag is cleared.                      *)
(***************************************************************************)
C5_ResolvedAtThreshold ==
    Len(WorkaroundPES) >= minVvcPesHeaderLen => ~WorkaroundPESFlag

(***************************************************************************)
(* The PES packets of the stream, read off the call history: the i-th PES  *)
(* is made of the i-th PUSI packet and the packets processed after it and  *)
(* before the next PUSI packet; heap[i] is the PesPkt created for it.      *)
(***************************************************************************)
PusiIdx == SelectSeq(Iota(Len(calls)), LAMBDA j : IsPusiCall(calls[j]))

PesLast(i) == IF i < Len(PusiIdx) THEN PusiIdx[i + 1] - 1 ELSE Len(calls)

RECURSIVE ConcatData(_, _)
ConcatData(a, b) ==
    IF a > b THEN <<>> ELSE calls[a].Data \o ConcatData(a + 1, b)

\* all payload bytes of the i-th PES, in arrival order
PesBytes(i) == ConcatData(PusiIdx[i], PesLast(i))

\* the payload of the PUSI packet of the i-th PES
PusiData(i) == calls[PusiIdx[i]].Data

HasMarker(d) == Len(d) >= 3 /\ SubSeq(d, 1, 3) = startcode

\* the i-th PES has its header split across packets and completed
SplitHeader(i) ==
    /\ Len(PusiData(i)) < minVvcPesHeaderLen
    /\ Len(PesBytes(i)) >= minVvcPesHeaderLen
    /\ HasMarker(PesBytes(i))

\* the 00 00 01 check is made for the i-th PES and fails
MarkerMismatch(i) ==
    /\ Len(PesBytes(i)) >= minVvcPesHeaderLen
    /\ ~HasMarker(PesBytes(i))

\* the PesPkt a fresh record holds after one PUSI packet carrying d
SinglePusi(d) ==
    LET st == [heap |-> <<>>, cur |-> 0, flag |-> FALSE, buf |-> <<>>,
               data |-> d, panic |-> FALSE]
        s1 == StartPes(minVvcPesHeaderLen, [Pos |-> 0, PUSI |-> 1, Data |-> d],
                       0, st)
    IN  Accumulate(s1).heap[1]

(***************************************************************************)
(* C6.  A PES whose header is split across transport packets (PUSI payload *)
(* shorter than 19 bytes, completed by the following non-PUSI packets, the *)
(* concatenation beginning 00 00 01) ends with the Pts, Dts, Data and Size *)
(* it would have had, had the concatenated bytes arrived in one PUSI       *)
(* packet: Data is the concatenation minus the parsed header bytes.        *)
(***************************************************************************)
C6_SplitHeaderEquivalent ==
    ~panicked =>
    \A i \in 1..Len(heap) :
        SplitHeader(i) =>
            LET one == SinglePusi(PesBytes(i))
                p   == heap[i]
            IN  /\ p.Pts = one.Pts
                /\ p.Dts = one.Dts
                /\ p.Data = one.Data
                /\ p.Size = one.Size
                /\ p.Data = Drop(PesBytes(i), PesRead(PesBytes(i)).hlen)
                /\ p.Size = Len(PesBytes(i)) - PesRead(PesBytes(i)).hlen

\* a split header completed by one packet, a further packet appended, and the
\* packet finalized with a non-empty payload
C6_Witness ==
    \E k \in 1..Len(Pkts) :
        /\ SplitHeader(Pkts[k])
        /\ PesLast(Pkts[k]) >= PusiIdx[Pkts[k]] + 2
        /\ heap[Pkts[k]].Pts = 1000
        /\ Len(heap[Pkts[k]].Data) >= 6

(***************************************************************************)
(* C7.  A header marker mismatch loses no bytes: when the 00 00 01 check   *)
(* fails for a PES (on a PUSI payload of at least 19 bytes, or on the      *)
(* workaround buffer once it holds at least 19 bytes), the payload is kept *)
(* as it is and its bytes and those of the following packets are appended  *)
(* to the PesPkt.                                                          *)
(***************************************************************************)
C7_MismatchKeepsBytes ==
    ~panicked =>
    \A i \in 1..Len(heap) :
        MarkerMismatch(i) =>
            /\ heap[i].Data = PesBytes(i)
            /\ heap[i].Size = Len(PesBytes(i))

(***************************************************************************)
(* C8.  After every call the workaround buffer is non-empty only while it  *)
(* is below the 19-byte threshold.                                         *)
(***************************************************************************)
C8_BufferBelowThreshold ==
    WorkaroundPES # <<>> => Len(WorkaroundPES) < minVvcPesHeaderLen

(***************************************************************************)
(* C9.  MHAS resynchronization.                                            *)
(***************************************************************************)
\* the header decoded at byte offset i is rejected by the length check
HeaderRejected(data, i) ==
    LET r0 == [NewReader EXCEPT !.Base = i]
        t  == parseEscapedValue(data, r0, 3, 8, 8)
        l  == parseEscapedValue(data, t.r, 2, 8, 32)
        n  == parseEscapedValue(data, l.r, 11, 24, 24)
    IN  ~n.r.oob /\ n.val > Len(data) - n.r.Base

\* the names of the valid packets: the table name of the 3-bit type
ValidNames(valid) ==
    [j \in 1..Len(valid) |-> GetMpeghAudioPacketType(valid[j][1] \div 32)]

RECURSIVE IsSubSeq(_, _)
IsSubSeq(a, b) ==
    IF a = <<>> THEN TRUE
    ELSE IF b = <<>> THEN FALSE
    ELSE IF Head(a) = Head(b) THEN IsSubSeq(Tail(a), Tail(b))
    ELSE IsSubSeq(a, Tail(b))

\* C9 as claimed: for a payload whose first packet declares a length
\* exceeding the remaining bytes and which is followed by valid packets, the
\* parser does not abort, retries one byte past the corrupt packet's start,
\* and its output contains the names of the valid packets, in order.
C9_ResyncFindsValidPackets ==
    (fn = "parseMhasPackets" /\ ret # <<>>
       /\ HeaderRejected(MhasPayload(arg), 0)) =>
        /\ ~ret[1].oob
        /\ Len(ret[1].starts) >= 2 /\ ret[1].starts[2] = 1
        /\ IsSubSeq(ValidNames(arg.valid), ret[1].types)

\* C9 as amended: the same, provided the header decoded at every further
\* byte offset inside the corrupt packet is rejected by the length check
\* too; the output is then the names of the valid packets, in order, and
\* one MhasPacketInfo lists them.
C9_ResyncWhenJunkRejected ==
    (fn = "parseMhasPackets" /\ ret # <<>>
       /\ \A i \in 0..(Len(arg.junk) - 1) : HeaderRejected(MhasPayload(arg), i)) =>
        /\ ~ret[1].oob
        /\ Len(ret[1].starts) >= 2 /\ ret[1].starts[2] = 1
        /\ ret[1].resyncs = Len(arg.junk)
        /\ ret[1].types = ValidNames(arg.valid)
        /\ MhasPackets = <<[Pos |-> 1, Pts |-> 0,
                            PacketTypes |-> ValidNames(arg.valid)]>>

\* a three-byte corrupt packet rejected at each of its offsets, followed by
\* three valid packets, all of them classified
C9_Witness ==
    /\ fn = "parseMhasPackets" /\ ret # <<>>
    /\ Len(arg.junk) = 3
    /\ \A i \in 0..2 : HeaderRejected(MhasPayload(arg), i)
    /\ ret[1].resyncs = 3
    /\ Len(ret[1].types) = 3
    /\ ret[1].isRap

(***************************************************************************)
(* C10.  parseEscapedValue(n, m, k) returns v when the first n bits v are  *)
(* below 2^n-1, (2^n-1)+v2 when v is saturated and the next m bits v2 are  *)
(* below 2^m-1, and (2^n-1)+(2^m-1)+v3 when both are saturated, consuming  *)
(* n, n+m or n+m+k bits; every encoded value decodes to itself.            *)
(***************************************************************************)
C10_EscapedValueDecodes ==
    (fn = "parseEscapedValue" /\ ret # <<>>) =>
        LET n  == arg.w[1]
            m  == arg.w[2]
            k  == arg.w[3]
            b  == arg.bits
            v  == BitsValue(SubSeq(b, 1, n))
            v2 == BitsValue(SubSeq(b, n + 1, n + m))
            v3 == BitsValue(SubSeq(b, n + m + 1, n + m + k))
            e  == ret[1]
        IN  /\ ~e.oob
            /\ v < Pow2(n) - 1 => e.val = v /\ e.used = n
            /\ (v = Pow2(n) - 1 /\ v2 < Pow2(m) - 1) =>
                   e.val = (Pow2(n) - 1) + v2 /\ e.used = n + m
            /\ (v = Pow2(n) - 1 /\ v2 = Pow2(m) - 1) =>
                   e.val = (Pow2(n) - 1) + (Pow2(m) - 1) + v3 /\ e.used = n + m + k
            /\ e.val = arg.x

\* widths (3,8,8): 10 decodes to 10 through the 8-bit extension
C10_Witness ==
    /\ fn = "parseEscapedValue" /\ ret # <<>>
    /\ arg.w = <<3, 8, 8>>
    /\ arg.x = 10
    /\ ret[1].val = 10
    /\ ret[1].used = 11

\* widths (3,8,8): 5 decodes to 5 from the first 3 bits alone
C10_WitnessNoExtension ==
    /\ fn = "parseEscapedValue" /\ ret # <<>>
    /\ arg.w = <<3, 8, 8>>
    /\ arg.x = 5
    /\ ret[1].val = 5
    /\ ret[1].used = 3

(***************************************************************************)
(* C11.  A PesPkt that has been appended to Pkts never changes again and   *)
(* is never appended a second time: no Process or Flush step, in any order *)
(* of calls, changes a packet that Pkts already holds or leaves Pkts with  *)
(* two entries for one packet object.                                      *)
(***************************************************************************)
C11_FinalizedImmutable ==
    [][ /\ \A k \in 1..Len(Pkts) : heap'[Pkts[k]] = heap[Pkts[k]]
        /\ \A j, k \in 1..Len(Pkts') : Pkts'[j] = Pkts'[k] => j = k ]_vars

\* the Process calls a..b run on a record in its initial state (st)
RECURSIVE ReplayFrom(_, _, _, _)
ReplayFrom(minLen, st, a, b) ==
    IF a > b THEN st
    ELSE IF calls[a].op = "Flush" THEN ReplayFrom(minLen, st, a + 1, b)
    ELSE LET st0 == [st EXCEPT !.data = calls[a].Data]
             st1 == IF calls[a].PUSI = 1
                    THEN StartPes(minLen, calls[a], 0, st0)
                    ELSE st0
         IN  ReplayFrom(minLen, Accumulate(WorkaroundStep(minLen, st1)), a + 1, b)

\* the packet built from the transport packets of the i-th PES alone
OwnPesPkt(i) ==
    ReplayFrom(minVvcPesHeaderLen,
               [heap |-> <<>>, cur |-> 0, flag |-> FALSE, buf |-> <<>>,
                data |-> <<>>, panic |-> FALSE],
               PusiIdx[i], PesLast(i)).heap[1]

\* a is the tail end of b
IsSuffix(a, b) ==
    Len(a) <= Len(b) /\ a = SubSeq(b, Len(b) - Len(a) + 1, Len(b))

(***************************************************************************)
(* C12.  The Data, Pts and Dts of a finalized PesPkt derive solely from    *)
(* the transport packets of its own PES (its PUSI packet and the packets   *)
(* before the next PUSI): Data is a tail of the bytes of those packets,    *)
(* and Pts and Dts are unset or the ones those packets alone produce on a  *)
(* record in its initial state, whatever earlier PES packets left in the   *)
(* workaround buffer.                                                      *)
(***************************************************************************)
C12_OnlyOwnBytes ==
    ~panicked =>
        \A k \in 1..Len(Pkts) :
            LET p == heap[Pkts[k]]
                own == OwnPesPkt(Pkts[k])
            IN  /\ IsSuffix(p.Data, PesBytes(Pkts[k]))
                /\ p.Pts \in {0, own.Pts}
                /\ p.Dts \in {0, own.Dts}

\* one of the names is that of a config (1) or a sync (6) packet
HasRapName(types) ==
    \E j \in 1..Len(types) : types[j] \in {"PACTYP_MPEGH3DACFG", "PACTYP_SYNC"}

\* a classified packet of the payload is a config or a sync packet
HasMhasRap(data) == HasRapName(MhasScan(data).types)

\* the entries of Pkts whose payload holds a config or sync packet
RapPkts == {k \in 1..Len(Pkts) : HasMhasRap(heap[Pkts[k]].Data)}

(***************************************************************************)
(* C13.  MPEG-H: parseMhasPackets returns true iff a classified packet of  *)
(* the payload has type 1 (config) or 6 (sync); a PES finalized by a       *)
(* following PUSI packet yields one LogRap row and one RapFrames entry     *)
(* (its Pos) if the flag is true, and none otherwise; no row and no entry  *)
(* is written for anything else.                                           *)
(***************************************************************************)
C13_RapFlagAndEvents ==
    (kind = "mpegh" /\ NoFlushYet /\ ~panicked) =>
        /\ \A k \in 1..Len(Pkts) :
              LET p == heap[Pkts[k]]
                  scan == MhasScan(p.Data)
                  n == IF HasRapName(scan.types) THEN 1 ELSE 0
              IN  /\ scan.isRap = HasRapName(scan.types)
                  /\ RowsAt(RapLog, p.Pos) = n
                  /\ Cardinality({j \in 1..Len(RapFrames) : RapFrames[j] = p.Pos}) = n
        /\ \A j \in 1..Len(RapLog) :
              \E k \in 1..Len(Pkts) : heap[Pkts[k]].Pos = RapLog[j].Pos
        /\ \A j \in 1..Len(RapFrames) :
              \E k \in 1..Len(Pkts) : heap[Pkts[k]].Pos = RapFrames[j]

\* a payload whose only RAP indicator is a sync packet, and one without any
C13_Witness ==
    /\ kind = "mpegh" /\ NoFlushYet /\ ~panicked
    /\ \E k \in RapPkts :
          ~InSeq("PACTYP_MPEGH3DACFG", MhasScan(heap[Pkts[k]].Data).types)
    /\ \E k \in 1..Len(Pkts) :
          /\ k \notin RapPkts
          /\ MhasScan(heap[Pkts[k]].Data).types # <<>>

\* the row the report is to hold for a finalized packet: Pos, Size, PCR,
\* PTS, DTS, drift in decimal, separated by ", "
ReportedRow(p) ==
    ToString(p.Pos) \o ", " \o ToString(p.Size) \o ", "
        \o ToString(p.Pcr \div 300) \o ", " \o ToString(p.Pts) \o ", "
        \o (IF p.Dts = 0
            THEN ToString(p.Pts) \o ", " \o ToString(p.Pts - (p.Pcr \div 300))
            ELSE ToString(p.Dts) \o ", " \o ToString(p.Dts - (p.Pcr \div 300)))

(***************************************************************************)
(* C14.  Report writes one row per finalized packet, in processing order:  *)
(* the PCR column is Pcr/300 (integer division); if Dts = 0 the DTS        *)
(* column is Pts and the drift column Pts - Pcr/300, otherwise the DTS     *)
(* column is Dts and the drift column Dts - Pcr/300.                       *)
(***************************************************************************)
C14_ReportColumns ==
    PidCsv # <<>> =>
        /\ Len(PidCsv) = Len(Pkts) + 1
        /\ \A i \in 1..Len(Pkts) : PidCsv[i + 1] = ReportedRow(heap[Pkts[i]])

\* a report with a row of a packet without DTS and a row of a packet with
\* one, taken at a clock sample that 300 does not divide
C14_Witness ==
    /\ PidCsv # <<>>
    /\ \E i, j \in 1..Len(Pkts) :
          /\ heap[Pkts[i]].Dts = 0 /\ heap[Pkts[i]].Pts # 0
          /\ heap[Pkts[j]].Dts # 0
          /\ heap[Pkts[j]].Pcr % 300 # 0
          /\ heap[Pkts[i]].Pcr % 300 # 0

(***************************************************************************)
(* The two type lookups, applied to every code the analyzers can hand      *)
(* them, next to the analyzers themselves.                                 *)
(***************************************************************************)
\* int(packetType) ranges over 0..6 and, escaped, 7..517 (7 + 255 + 255)
MaxPacketType == 517

InitNames ==
    /\ kind \in {"h266", "mpegh"}
    /\ InitRecord
    /\ \/ fn = "GetMpeghAudioPacketType" /\ kind = "mpegh"
          /\ arg \in 0..MaxPacketType
       \/ fn = "GetVvcNalUnitType" /\ kind = "h266" /\ arg \in 0..255
       \/ fn = "parseMhasPackets" /\ kind = "mpegh" /\ arg \in MhasInputs
    /\ ret = <<>>

CallGetMpeghAudioPacketType ==
    /\ fn = "GetMpeghAudioPacketType"
    /\ ret = <<>>
    /\ ret' = <<GetMpeghAudioPacketType(arg)>>
    /\ UNCHANGED <<recvars, fn, arg>>

CallGetVvcNalUnitType ==
    /\ fn = "GetVvcNalUnitType"
    /\ ret = <<>>
    /\ ret' = <<GetVvcNalUnitType(arg)>>
    /\ UNCHANGED <<recvars, fn, arg>>

NextNames ==
    \/ CallGetMpeghAudioPacketType
    \/ CallGetVvcNalUnitType
    \/ CallParseMhasPackets

SpecNames == InitNames /\ [][NextNames]_vars

\* the name ISO/IEC 23008-3 gives an MHAS packet type code
MhasTypeName(c) ==
    CASE c = 0 -> "PACTYP_FILLDATA"
      [] c = 1 -> "PACTYP_MPEGH3DACFG"
      [] c = 2 -> "PACTYP_MPEGH3DAFRAME"
      [] c = 3 -> "PACTYP_AUDIOSCENEINFO"
      [] c = 4 -> "unknown_4"
      [] c = 5 -> "unknown_5"
      [] c = 6 -> "PACTYP_SYNC"
      [] c = 7 -> "PACTYP_SYNCGAP"
      [] c = 8 -> "PACTYP_MARKER"
      [] c = 9 -> "PACTYP_CRC16"
      [] c = 10 -> "PACTYP_CRC32"
      [] c = 11 -> "PACTYP_DESCRIPTOR"
      [] c = 12 -> "PACTYP_USERINTERACTION"
      [] c = 13 -> "PACTYP_LOUDNESS_DRC"
      [] c = 14 -> "PACTYP_BUFFERINFO"
      [] c = 15 -> "PACTYP_GLOBAL_CRC16"
      [] c = 16 -> "PACTYP_GLOBAL_CRC32"
      [] c = 17 -> "PACTYP_AUDIOTRUNCATION"
      [] c = 18 -> "PACTYP_GENDATA"
      [] c = 19 -> "unknown_19"
      [] OTHER -> "unknown_" \o ToString(c)

(***************************************************************************)
(* C15.  GetMpeghAudioPacketType returns the table name of the codes 0-3   *)
(* and 6-18 and "unknown_<code>" for every other code (4, 5, 19 and up);   *)
(* GetVvcNalUnitType returns a name of its table for every byte; both      *)
(* return a name for every input, and parseMhasPackets appends one name    *)
(* per packet it classifies (every header decoded and not rejected).       *)
(***************************************************************************)
C15_LookupsTotal ==
    ret # <<>> =>
        /\ fn = "GetMpeghAudioPacketType" =>
              /\ ret[1] = MhasTypeName(arg)
              /\ InSeq(ret[1], MpeghAudioPacketType)
                    <=> arg \in (0..3) \cup (6..18)
        /\ fn = "GetVvcNalUnitType" =>
              /\ InSeq(ret[1], VvcNalUnitType)
              /\ ret[1] = VvcNalUnitType[((arg \div 8) % 32) + 1]
        /\ (fn = "parseMhasPackets" /\ ~ret[1].oob) =>
              Len(ret[1].types) = Len(ret[1].starts) - ret[1].resyncs

\* a code in the gap, a code above the table and a code of the table's
\* second part have been looked up
C15_Witness ==
    /\ fn = "GetMpeghAudioPacketType"
    /\ ret # <<>>
    /\ arg \in {5, 18, 19, MaxPacketType}

\* the classification of a payload with rejected headers and valid packets
C15_WitnessScan ==
    /\ fn = "parseMhasPackets"
    /\ ret # <<>>
    /\ ret[1].resyncs > 0 /\ Len(ret[1].types) > 1

(***************************************************************************)
(* C16.  MPEG-H: a MhasPacketInfo is appended only for a payload with a    *)
(* classified packet, so every entry of MhasPackets has PacketTypes        *)
(* non-empty and MhasPackets is never longer than Pkts.  H.266: a NalInfo  *)
(* is appended with every finalized packet (its Nals possibly empty), so   *)
(* NalInfos and Pkts have the same length in every state, entry by entry   *)
(* for the same packet.                                                    *)
(***************************************************************************)
C16_UnitRecordsVsHistory ==
    /\ kind = "mpegh" =>
          /\ \A j \in 1..Len(MhasPackets) : MhasPackets[j].PacketTypes # <<>>
          /\ Len(MhasPackets) <= Len(Pkts)
          /\ NalInfos = <<>>
    /\ kind = "h266" =>
          /\ Len(NalInfos) = Len(Pkts)
          /\ \A j \in 1..Len(Pkts) : NalInfos[j].Pos = heap[Pkts[j]].Pos
          /\ MhasPackets = <<>>

\* after a Flush: an MPEG-H history with a packet that has no MHAS record
\* and a packet that has one
C16_Witness ==
    /\ kind = "mpegh"
    /\ \E i \in 1..Len(calls) : calls[i].op = "Flush"
    /\ MhasPackets # <<>>
    /\ Len(MhasPackets) < Len(Pkts)

\* an H.266 history with a NalInfo whose Nals is empty
C16_WitnessEmptyNals ==
    /\ kind = "h266"
    /\ \E j \in 1..Len(NalInfos) : NalInfos[j].Nals = <<>>
    /\ \E j \in 1..Len(NalInfos) : NalInfos[j].Nals # <<>>

(***************************************************************************)
(* C17.  The current PesPkt and every PesPkt of the history have Size      *)
(* equal to the number of bytes of Data, in every reachable state.         *)
(***************************************************************************)
C17_SizeIsDataLength ==
    \A i \in 1..Len(heap) : heap[i].Size = Len(heap[i].Data)

\* a packet of the history and a current packet, each with bytes from more
\* than one transport packet
C17_Witness ==
    /\ curpkt # 0
    /\ \E k \in 1..Len(Pkts) :
          /\ Pkts[k] # curpkt
          /\ PesLast(Pkts[k]) > PusiIdx[Pkts[k]]
          /\ Len(heap[Pkts[k]].Data) > Len(calls[PesLast(Pkts[k])].Data)
          /\ Len(calls[PesLast(Pkts[k])].Data) > 0
    /\ PesLast(curpkt) > PusiIdx[curpkt]
    /\ heap[curpkt].Size > Len(calls[Len(calls)].Data)
    /\ Len(calls[Len(calls)].Data) > 0

(***************************************************************************)
(* parseMhasPackets on arbitrary payloads: every byte sequence up to       *)
(* MaxMhasLen over bytes that decode to plain, escaped, saturated and      *)
(* oversized header fields.                                                *)
(***************************************************************************)
MaxMhasLen == 5

\* 00: empty filler; 01, 07: long lengths; 20: config; E0, FF: escaped type
MhasBytes == {0, 1, 7, 32, 224, 255}

RECURSIVE BytesUpTo(_)
BytesUpTo(n) ==
    IF n = 0 THEN {<<>>}
    ELSE LET S == BytesUpTo(n - 1)
         IN  S \cup {Append(s, b) : s \in {x \in S : Len(x) = n - 1},
                                    b \in MhasBytes}

InitMhasBytes ==
    /\ kind = "mpegh"
    /\ InitRecord
    /\ fn = "parseMhasPackets(bytes)"
    /\ arg \in BytesUpTo(MaxMhasLen)
    /\ ret = <<>>

\* s.parseMhasPackets(data, pos, pts) with pos = 1, pts = 0
CallParseMhasBytes ==
    /\ fn = "parseMhasPackets(bytes)"
    /\ ret = <<>>
    /\ LET scan == MhasScan(arg)
       IN  /\ ret' = <<scan>>
           /\ MhasPackets' = MhasAppend(MhasPackets, scan, 1, 0)
           /\ panicked' = scan.oob
    /\ UNCHANGED <<kind, heap, curpkt, Pkts, NalInfos, RapFrames,
                   WorkaroundPESFlag, WorkaroundPES, PcrTime, IFrameLog,
                   RapLog, calls, PidCsv, UnitCsv, fn, arg>>

NextMhasBytes == CallParseMhasBytes

SpecMhasBytes == InitMhasBytes /\ [][NextMhasBytes]_vars

\* where the cursor is to stand after the loop body run at byte i: one byte
\* on if the header there is rejected, past header and payload otherwise
CursorAfter(data, i) ==
    LET r0 == [NewReader EXCEPT !.Base = i]
        t  == parseEscapedValue(data, r0, 3, 8, 8)
        l  == parseEscapedValue(data, t.r, 2, 8, 32)
        n  == parseEscapedValue(data, l.r, 11, 24, 24)
    IN  IF HeaderRejected(data, i) THEN i + 1 ELSE n.r.Base + n.val

(***************************************************************************)
(* C18.  parseMhasPackets terminates on every finite payload: every loop   *)
(* body that runs to its end moves the byte cursor forward, by one byte    *)
(* after a rejected header and by the header length plus packetLength      *)
(* (two bytes or more) after a valid one, the loop goes on until fewer     *)
(* than two bytes remain, and it runs at most once per payload byte.       *)
(***************************************************************************)
C18_CursorAdvances ==
    (fn = "parseMhasPackets(bytes)" /\ ret # <<>>) =>
        LET s == ret[1].starts
        IN  /\ Len(s) <= Len(arg)
            /\ Len(arg) >= 2 => (s # <<>> /\ s[1] = 0)
            /\ \A j \in 1..(Len(s) - 1) :
                  /\ s[j + 1] > s[j]
                  /\ s[j + 1] = CursorAfter(arg, s[j])
                  /\ ~HeaderRejected(arg, s[j]) => s[j + 1] >= s[j] + 2
            /\ (s # <<>> /\ ~ret[1].oob) =>
                  /\ CursorAfter(arg, s[Len(s)]) > s[Len(s)]
                  /\ CursorAfter(arg, s[Len(s)]) + 2 > Len(arg)

\* a payload of rejected headers only, resynchronized byte by byte
C18_Witness ==
    /\ fn = "parseMhasPackets(bytes)" /\ ret # <<>>
    /\ ~ret[1].oob
    /\ ret[1].types = <<>>
    /\ ret[1].resyncs >= 3
    /\ Len(ret[1].starts) = ret[1].resyncs

\* a payload with a rejected header between two valid packets
C18_WitnessMixed ==
    /\ fn = "parseMhasPackets(bytes)" /\ ret # <<>>
    /\ ~ret[1].oob
    /\ Len(ret[1].types) >= 2
    /\ ret[1].resyncs >= 1

(***************************************************************************)
(* C19.  While it decodes the three header fields parseMhasPackets never   *)
(* reads a bit beyond the end of the payload and never moves the cursor    *)
(* past the end: "at least 2 bytes remain" is enough for every header it   *)
(* starts to decode, whatever the payload.                                 *)
(***************************************************************************)
C19_HeaderWithinPayload ==
    (fn = "parseMhasPackets(bytes)" /\ ret # <<>>) =>
        /\ ~ret[1].oob
        /\ \A j \in 1..Len(ret[1].starts) :
              \/ HeaderRejected(arg, ret[1].starts[j])
              \/ CursorAfter(arg, ret[1].starts[j]) <= Len(arg)

=============================================================================
